---- MODULE Spec2Model ----
(***************************************************************************)
(* Aquasense water-quality node (src/main.cpp): the menu / power / upload  *)
(* state machine driven by loop(), and the rolling-average sampler.        *)
(*                                                                         *)
(* Representation                                                          *)
(*  - Time.  millis() is an unsigned 32-bit millisecond counter.  Every    *)
(*    delay and every threshold of the program is a multiple of 4 ms, so   *)
(*    the clock is kept in quanta of 4 ms modulo 2^30 quanta (= 2^32 ms);  *)
(*    differences are taken modulo 2^30, which is the unsigned 32-bit      *)
(*    subtraction of the code on multiples of 4 ms.                        *)
(*  - Floats.  Voltages, readings and temperatures are fixed-point         *)
(*    thousandths (mV, milli-pH, milli-degC, ...); -1.0 is -1000.          *)
(*  - One loop() iteration is three steps: handleMenu, managePower, the    *)
(*    scheduled-upload check followed by delay(100).                       *)
(***************************************************************************)
EXTENDS Integers, Sequences, FiniteSets, TLC

\* ---------------------------------------------------------------- bounds
MaxPresses == 4      \* loop iterations in which the operator holds a button
MaxIdleRuns == 2     \* uninterrupted idle periods taken by a behaviour
MaxStalls == 1       \* sendToFirebase calls in which the transport blocks
SamplePresses == 6   \* button budget of the sensor scenario
UploadPresses == 3   \* button budget of the upload scenario

CalibPresses == 4    \* button budget of the calibration scenario
MaxSaves == 1        \* saveCalibration calls of the calibration scenario
MaxResets == 1       \* resets and power losses of the calibration scenario

WrapPresses == 2     \* button budget of the wrap-around scenario
WrapIdleRuns == 1    \* idle periods of the wrap-around scenario

\* ------------------------------------------------------ program constants
QUANTUM_MS == 4
CLOCK_WRAP == 1073741824          \* 2^32 ms in quanta of 4 ms
menuItemsCount == 7
DEBOUNCE_MS == 200
DIM_MS == 30000
SLEEP_MS == 300000
UPLOAD_MS == 15000
LOOP_DELAY_MS == 100
SETUP_MS == 3000                  \* delay(1000) and delay(2000) of setup()
MSG_DELAY_MS == 1000
ADC_MAX == 4095
VREF_MV == 3300
BUF_LEN == 3
INVALID == -1000                  \* the -1.0 error value
DEFAULT_TEMP == 25000             \* 25.0 degC
SENTINEL_LOW == -127000           \* DS18B20 disconnected
SENTINEL_HIGH == 85000            \* DS18B20 power-on value
PH_TEMP_COEFF_E4 == 198           \* 0.0198 per degC, in 1e-4
TDS_TEMP_COEFF_E2 == 2            \* 0.02 per degC, in 1e-2
PH_MAX == 14000
TURB_MAX == 150000

\* ------------------------------------------------------------ input sets
Channels == {"ph", "turb", "tds"}
Buttons == {"up", "down", "select", "back"}
\* levels of the four button pins seen by one handleMenu call
PinInputs == {{}, {"up"}, {"down"}, {"select"}, {"back"},
              {"up", "down", "select", "back"}, {"select", "back"}}
\* raw ADC codes: both rails and two codes in between
AdcValues == {0, 1000, 2047, ADC_MAX}
\* probe results: the two sentinels, room temperature, a sub-zero value
TempValues == {SENTINEL_LOW, SENTINEL_HIGH, 25000, -5000}
\* the codes and probe results of the timing scenario: every pin reads the
\* same code, a rail (probe fault) or mid-scale
TimingAdc == {0, 2047}
TimingTemps == {25000}
\* the probe results of the sensor scenario
SampleTemps == {25000, -5000}
\* the codes and probe results of the upload scenario: both rails and
\* mid-scale on each pin; a sentinel, room temperature, a sub-zero value
UploadAdc == {0, 2047, ADC_MAX}
UploadTemps == {SENTINEL_LOW, 25000, -5000}
\* time (ms) setup() takes: its two fixed delays, WiFi already in range
BootTimes == {SETUP_MS}
\* time (ms) the transport blocks inside one sendToFirebase call; the code
\* sets no bound on it other than the library's own timeouts
SendDurations == {0, 300000}

NoRead == -1

Ms(n) == n \div QUANTUM_MS

\* unsigned 32-bit difference t - since, in quanta
Elapsed(t, since) == (t - since) % CLOCK_WRAP

Advance(t, ms) == (t + Ms(ms)) % CLOCK_WRAP

ZeroBuf == [i \in 0..(BUF_LEN - 1) |-> 0]

DefaultCalib == [ph_slope |-> -1500, ph_intercept |-> 7000,
                 turb_slope |-> -50000, turb_intercept |-> 100000,
                 tds_k |-> 500]

VARIABLES
  now,              \* millis(), in quanta
  pc,               \* position in loop(): "menu", "power", "upload", "asleep";
                    \* "saving" inside saveCalibration
  currentMenuItem, lastButtonPress, lastLCDActivity, lcdBacklightOn,
  lastRead, powerSaveMode,
  phBuf, turbBuf, tdsBuf, phPtr, turbPtr, tdsPtr,
  calib,            \* ph_slope, ph_intercept, turb_slope, turb_intercept, tds_k
  \* --- observation of the step that led to the state
  btn,              \* button the operator held, when the step is handleMenu
  accepted,         \* buttonPressed at the end of that handleMenu call
  trace,            \* effects of the step, in program order
  adcIn,            \* per channel: raw code read in the step
  ret,              \* per channel: value readVoltage returned in the step
  hist,             \* per channel: voltages accepted so far, oldest first
  lastAttempt,      \* start and kind of the last sendToFirebase call, and
                    \* the start of the last manual and scheduled one
  out,              \* the quantities computed in the step, by name
  oldPaths,         \* paths handed to the transport before the last restart
  curPaths,         \* paths handed to the transport since the last restart
  \* --- persistent calibration storage (Preferences namespace "calib")
  store,            \* per key: whether it is present, and its value
  savePos,          \* 0: no save in progress; k: k-1 putFloat calls are done
  preSave,          \* the store when the last saveCalibration call began
  saveVals,         \* the profile the last saveCalibration call was saving
  \* --- environment budgets
  pressesLeft, runsLeft, stallsLeft, savesLeft, resetsLeft,
  \* --- scenario: the raw codes and probe results the sensors produce, and
  \* whether WiFi and Firebase can be ready
  sensors, probe, link

progVars == <<currentMenuItem, lastButtonPress, lastLCDActivity,
              lcdBacklightOn, lastRead, powerSaveMode,
              phBuf, turbBuf, tdsBuf, phPtr, turbPtr, tdsPtr, calib>>

bufVars == <<phBuf, turbBuf, tdsBuf, phPtr, turbPtr, tdsPtr>>

vars == <<now, pc, currentMenuItem, lastButtonPress, lastLCDActivity,
          lcdBacklightOn, lastRead, powerSaveMode,
          phBuf, turbBuf, tdsBuf, phPtr, turbPtr, tdsPtr, calib,
          btn, accepted, trace, adcIn, ret, hist, lastAttempt,
          out, oldPaths, curPaths, store, savePos, preSave, saveVals,
          pressesLeft, runsLeft, stallsLeft, savesLeft, resetsLeft,
          sensors, probe, link>>

\* the persistent store and the progress and history of saveCalibration
calVars == <<store, savePos, preSave, saveVals, savesLeft, resetsLeft>>

pathVars == <<oldPaths, curPaths>>

\* no quantity computed in the step
NoOut == [q \in {} |-> 0]

NoReads == [c \in Channels |-> NoRead]

\* no sendToFirebase call since power-up
NoAttempt == [at |-> 0, kind |-> "none", manualAt |-> NoRead, schedAt |-> NoRead]

\* ------------------------------------------------------- pure functions
Volts(adc) == (adc * VREF_MV) \div ADC_MAX

\* constrain without the upper limit
Constrain_NoUpper(x, lo, hi) == IF x < lo THEN lo ELSE x

Constrain(x, lo, hi) == IF x < lo THEN lo ELSE IF x > hi THEN hi ELSE x

\* readVoltage with the upper-rail test left out
readVoltage_LowRailOnly(adc, buf, ptr) ==
  IF adc = 0
  THEN [ret |-> INVALID, buf |-> buf, ptr |-> ptr]
  ELSE LET v == Volts(adc)
           nb == [buf EXCEPT ![ptr] = v]
       IN [ret |-> (nb[0] + nb[1] + nb[2]) \div BUF_LEN,
           buf |-> nb, ptr |-> (ptr + 1) % BUF_LEN]

\* readVoltage with a cursor that is never advanced
readVoltage_StuckCursor(adc, buf, ptr) ==
  IF adc = 0 \/ adc = ADC_MAX
  THEN [ret |-> INVALID, buf |-> buf, ptr |-> ptr]
  ELSE LET v == Volts(adc)
           nb == [buf EXCEPT ![ptr] = v]
       IN [ret |-> (nb[0] + nb[1] + nb[2]) \div BUF_LEN,
           buf |-> nb, ptr |-> ptr]

\* readVoltage: the value returned and the buffer and cursor it leaves
readVoltage(adc, buf, ptr) ==
  IF adc = 0 \/ adc = ADC_MAX
  THEN [ret |-> INVALID, buf |-> buf, ptr |-> ptr]
  ELSE LET v == Volts(adc)
           nb == [buf EXCEPT ![ptr] = v]
       IN [ret |-> (nb[0] + nb[1] + nb[2]) \div BUF_LEN,
           buf |-> nb, ptr |-> (ptr + 1) % BUF_LEN]

getTemp(t) == IF t = SENTINEL_LOW \/ t = SENTINEL_HIGH THEN DEFAULT_TEMP ELSE t

\* conversion of a mean voltage v (mV) at probe result t
phOf(v, t) ==
  IF v < 0 THEN INVALID
  ELSE Constrain((calib.ph_slope * v) \div 1000 + calib.ph_intercept
                 + (PH_TEMP_COEFF_E4 * (getTemp(t) - DEFAULT_TEMP)) \div 10000,
                 0, PH_MAX)

turbOf(v) ==
  IF v < 0 THEN INVALID
  ELSE Constrain((calib.turb_slope * v) \div 1000 + calib.turb_intercept,
                 0, TURB_MAX)

tdsOf(v, t) ==
  IF v < 0 THEN INVALID
  ELSE (((v * calib.tds_k) \div 1000)
        * (1000 + (TDS_TEMP_COEFF_E2 * (getTemp(t) - DEFAULT_TEMP)) \div 100))
       \div 1000

\* getEC without the factor 2
ecOf_NoFactor(tds) == IF tds < 0 THEN INVALID ELSE tds

ecOf(tds) == IF tds < 0 THEN INVALID ELSE tds * 2

\* the button handleMenu acts on: Up, else Down, else Select, else Back
Pressed(pins) ==
  IF "up" \in pins THEN "up"
  ELSE IF "down" \in pins THEN "down"
  ELSE IF "select" \in pins THEN "select"
  ELSE IF "back" \in pins THEN "back"
  ELSE "none"

\* the debounce test with a window of 20 ms
Debounced_20ms(t) == Elapsed(t, lastButtonPress) < Ms(DEBOUNCE_MS \div 10)

\* the debounce test written as a comparison with a deadline
Debounced_Deadline(t) == t < lastButtonPress + Ms(DEBOUNCE_MS)

\* line 350
Debounced(t) == Elapsed(t, lastButtonPress) < Ms(DEBOUNCE_MS)

\* the 15 s test with a period of 1.5 s
UploadDue_1500ms(t, lr) == Elapsed(t, lr) >= Ms(UPLOAD_MS \div 10)

\* line 402, with lastRead = lr
UploadDue(t, lr) == Elapsed(t, lr) >= Ms(UPLOAD_MS)

\* lines 181-183
DimDue(t) ==
  powerSaveMode /\ lcdBacklightOn /\ Elapsed(t, lastLCDActivity) > Ms(DIM_MS)

\* the sleep test outside the power-save block
SleepDue_AnyMode(t, lr) == Elapsed(t, lr) > Ms(SLEEP_MS)

\* lines 181 and 188, with lastRead = lr
SleepDue(t, lr) == powerSaveMode /\ Elapsed(t, lr) > Ms(SLEEP_MS)

\* wakeLCD that switches the backlight on and keeps the old timestamp
wakeLCD_NoStamp(t) ==
  [lcdBacklightOn |-> TRUE, lastLCDActivity |-> lastLCDActivity,
   trace |-> IF lcdBacklightOn THEN <<>> ELSE <<"backlight">>]

\* wakeLCD that resets the timestamp and leaves the backlight as it is
wakeLCD_NoBacklight(t) ==
  [lcdBacklightOn |-> lcdBacklightOn, lastLCDActivity |-> t,
   trace |-> <<"stamp">>]

\* wakeLCD at time t: the backlight and the activity timestamp it leaves,
\* and its effects in order
wakeLCD(t) ==
  [lcdBacklightOn |-> TRUE, lastLCDActivity |-> t,
   trace |-> (IF lcdBacklightOn THEN <<>> ELSE <<"backlight">>) \o <<"stamp">>]

\* Up that wraps to menuItemsCount instead of menuItemsCount - 1
UpIndex_WrapPastEnd(i) == IF i > 0 THEN i - 1 ELSE menuItemsCount

\* lines 355 and 359: the index Up and Down move to
UpIndex(i) == IF i > 0 THEN i - 1 ELSE menuItemsCount - 1

DownIndex(i) == IF i < menuItemsCount - 1 THEN i + 1 ELSE 0

\* the scheduled upload without the power-save test
ScheduledSend_IgnorePowerSave(t, lr) == UploadDue(t, lr)

\* lines 402-404: the scheduled upload is made
ScheduledSend(t, lr) == UploadDue(t, lr) /\ ~powerSaveMode

\* some timer of loop() fires in an iteration that starts at time t
TimerDue(t, lr) == UploadDue(t, lr) \/ DimDue(t) \/ SleepDue(t, lr)

\* an iteration at time t does more than refresh lastRead: it dims, sleeps
\* or makes the scheduled upload
Eventful(t, lr) == DimDue(t) \/ SleepDue(t, lr) \/ ScheduledSend(t, lr)

Append3(h, v) == IF Len(h) < BUF_LEN THEN Append(h, v) ELSE Append(Tail(h), v)

\* the accepted-voltage history after a read of raw code adc
Accept(h, adc) == IF adc = 0 \/ adc = ADC_MAX THEN h ELSE Append3(h, Volts(adc))

\* the keys of the Preferences namespace "calib"
Keys == {"ph_slope", "ph_intercept", "turb_slope", "turb_intercept", "tds_k"}

\* the order in which saveCalibration writes them
KeyOrder == <<"ph_slope", "ph_intercept", "turb_slope", "turb_intercept", "tds_k">>

\* a namespace that holds no key
EmptyStore == [k \in Keys |-> [present |-> FALSE, val |-> 0]]

\* a namespace that holds every coefficient of profile p
FullStore(p) == [k \in Keys |-> [present |-> TRUE, val |-> p[k]]]

\* getFloat that never finds the key
getFloat_KeyNotFound(st, k, def) == def

\* preferences.getFloat(key, def)
getFloat(st, k, def) == IF st[k].present THEN st[k].val ELSE def

\* preferences.putFloat(key, v)
putFloat(st, k, v) == [st EXCEPT ![k] = [present |-> TRUE, val |-> v]]

\* loadCalibration with the globals at cur: every coefficient is read with
\* its current value as the default
loadCalibration(st, cur) == [k \in Keys |-> getFloat(st, k, cur[k])]

\* the path of an upload made at time t: "/r/" + millis() / 1000
PathOf(t) == t \div Ms(1000)

\* ------------------------------------------------------------------ Init
\* the state setup() leaves over the store st: globals at their initialisers,
\* the calibration loaded, the clock at the time setup() took, displayMenu()
\* called once (wakeLCD)
Boot(t, st) ==
  /\ now = Ms(t)
  /\ pc = "menu"
  /\ currentMenuItem = 0
  /\ lastButtonPress = 0
  /\ lastLCDActivity = Ms(t)
  /\ lcdBacklightOn = TRUE
  /\ lastRead = 0
  /\ powerSaveMode = FALSE
  /\ phBuf = ZeroBuf /\ turbBuf = ZeroBuf /\ tdsBuf = ZeroBuf
  /\ phPtr = 0 /\ turbPtr = 0 /\ tdsPtr = 0
  /\ store = st
  /\ calib = loadCalibration(st, DefaultCalib)
  /\ btn = "none" /\ accepted = FALSE /\ trace = <<"boot">>
  /\ adcIn = NoReads /\ ret = NoReads /\ out = NoOut
  /\ oldPaths = {} /\ curPaths = {}
  /\ savePos = 0 /\ preSave = st /\ saveVals = DefaultCalib
  /\ hist = [c \in Channels |-> <<>>]
  /\ lastAttempt = NoAttempt

Init ==
  /\ \E t \in BootTimes : Boot(t, EmptyStore)
  /\ pressesLeft = MaxPresses
  /\ runsLeft = MaxIdleRuns
  /\ stallsLeft = MaxStalls
  /\ savesLeft = 0
  /\ resetsLeft = 0
  /\ sensors = {[ph |-> a, turb |-> a, tds |-> a] : a \in TimingAdc}
  /\ probe = TimingTemps
  /\ link = BOOLEAN

\* the sensor scenario: every code on every pin, button presses only, and
\* the network down
InitSample ==
  /\ \E t \in BootTimes : Boot(t, EmptyStore)
  /\ pressesLeft = SamplePresses
  /\ runsLeft = 0
  /\ stallsLeft = 0
  /\ savesLeft = 0
  /\ resetsLeft = 0
  /\ sensors = [ph : AdcValues, turb : AdcValues, tds : AdcValues]
  /\ probe = SampleTemps
  /\ link = {FALSE}


\* ------------------------------------------------------- sendToFirebase
\* the validity test with "and" in place of "or"
SkipSend_AllNegative(temperature, ph, turbidity, tds, ec) ==
  temperature < 0 /\ ph < 0 /\ turbidity < 0 /\ tds < 0 /\ ec < 0

\* line 321: the upload is skipped
SkipSend(temperature, ph, turbidity, tds, ec) ==
  temperature < 0 \/ ph < 0 \/ turbidity < 0 \/ tds < 0 \/ ec < 0

\* sendToFirebase with the readiness test after the sampling
sendToFirebase_SamplesFirst(t, ready, a, tp, d) ==
  LET temperature == getTemp(tp[1])
      rp == readVoltage(a.ph, phBuf, phPtr)
      ph == phOf(rp.ret, tp[2])
      rt == readVoltage(a.turb, turbBuf, turbPtr)
      turbidity == turbOf(rt.ret)
      rd == readVoltage(a.tds, tdsBuf, tdsPtr)
      tds == tdsOf(rd.ret, tp[3])
      ec == IF tds < 0 THEN INVALID ELSE tds * 2
      skip == ~ready \/ SkipSend(temperature, ph, turbidity, tds, ec)
  IN [phBuf |-> rp.buf, phPtr |-> rp.ptr, turbBuf |-> rt.buf,
      turbPtr |-> rt.ptr, tdsBuf |-> rd.buf, tdsPtr |-> rd.ptr,
      adcIn |-> [ph |-> a.ph, turb |-> a.turb, tds |-> a.tds],
      ret |-> [ph |-> rp.ret, turb |-> rt.ret, tds |-> rd.ret],
      hist |-> [ph |-> Accept(hist.ph, a.ph),
                turb |-> Accept(hist.turb, a.turb),
                tds |-> Accept(hist.tds, a.tds)],
      out |-> [temp |-> temperature, ph |-> ph, turb |-> turbidity,
               tds |-> tds, ec |-> ec],
      paths |-> IF skip THEN {} ELSE {PathOf(t)},
      trace |-> <<"send">>
                \o (IF skip THEN <<>> ELSE <<"payload", "transport">>),
      end |-> IF skip THEN t ELSE Advance(t, d)]

\* sendToFirebase called at time t.  ready: WiFi connected and Firebase
\* ready; a: the raw codes of the three pins; tp: the three probe results
\* (payload temperature, getPH, getTDS); d: ms the transport blocks.
sendToFirebase(t, ready, a, tp, d) ==
  IF ~ready
  THEN [phBuf |-> phBuf, phPtr |-> phPtr, turbBuf |-> turbBuf,
        turbPtr |-> turbPtr, tdsBuf |-> tdsBuf, tdsPtr |-> tdsPtr,
        adcIn |-> NoReads, ret |-> NoReads, hist |-> hist,
        out |-> NoOut, paths |-> {},
        trace |-> <<"send">>, end |-> t]
  ELSE LET temperature == getTemp(tp[1])
           rp == readVoltage(a.ph, phBuf, phPtr)
           ph == phOf(rp.ret, tp[2])
           rt == readVoltage(a.turb, turbBuf, turbPtr)
           turbidity == turbOf(rt.ret)
           rd == readVoltage(a.tds, tdsBuf, tdsPtr)
           tds == tdsOf(rd.ret, tp[3])
           ec == IF tds < 0 THEN INVALID ELSE tds * 2
           skip == SkipSend(temperature, ph, turbidity, tds, ec)
       IN [phBuf |-> rp.buf, phPtr |-> rp.ptr, turbBuf |-> rt.buf,
           turbPtr |-> rt.ptr, tdsBuf |-> rd.buf, tdsPtr |-> rd.ptr,
           adcIn |-> [ph |-> a.ph, turb |-> a.turb, tds |-> a.tds],
           ret |-> [ph |-> rp.ret, turb |-> rt.ret, tds |-> rd.ret],
           hist |-> [ph |-> Accept(hist.ph, a.ph),
                     turb |-> Accept(hist.turb, a.turb),
                     tds |-> Accept(hist.tds, a.tds)],
           out |-> [temp |-> temperature, ph |-> ph, turb |-> turbidity,
                    tds |-> tds, ec |-> ec],
           paths |-> IF skip THEN {} ELSE {PathOf(t)},
           trace |-> <<"send", "temp", "ph", "turb", "tds">>
                     \o (IF skip THEN <<>> ELSE <<"payload", "transport">>),
           end |-> IF skip THEN t ELSE Advance(t, d)]

\* the codes of the three pins and the three probe results of one call
AdcInputs == sensors

\* the codes one pin can read
PinCodes == {a.ph : a \in sensors}

TempInputs == probe \X probe \X probe

\* the times the transport can block in the call at hand
Blocking == IF stallsLeft > 0 THEN SendDurations ELSE {0}

\* the outcomes a sendToFirebase call at time t can have
SendOutcomes(t) ==
  {sendToFirebase(t, ready, a, tp, d) :
     ready \in link, a \in AdcInputs, tp \in TempInputs, d \in Blocking}

\* ----------------------------------------------------------- handleMenu
\* line 350: the call returns before it looks at the pins
MenuDebounce(pins) ==
  /\ pc = "menu"
  /\ Debounced(now)
  /\ IF pins = {} THEN pressesLeft' = pressesLeft
                  ELSE pressesLeft > 0 /\ pressesLeft' = pressesLeft - 1
  /\ pc' = "power"
  /\ btn' = Pressed(pins) /\ accepted' = FALSE /\ trace' = <<>>
  /\ adcIn' = NoReads /\ ret' = NoReads
  /\ out' = NoOut
  /\ UNCHANGED <<now, progVars, hist, lastAttempt, runsLeft, stallsLeft,
                 sensors, probe, link, calVars, pathVars>>

\* no pin is low: nothing happens
MenuIdle ==
  /\ pc = "menu"
  /\ ~Debounced(now)
  /\ TimerDue(now, lastRead)
  /\ pc' = "power"
  /\ btn' = "none" /\ accepted' = FALSE /\ trace' = <<>>
  /\ adcIn' = NoReads /\ ret' = NoReads
  /\ out' = NoOut
  /\ UNCHANGED <<now, progVars, hist, lastAttempt, pressesLeft, runsLeft,
                 stallsLeft, sensors, probe, link, calVars, pathVars>>

\* guard and bookkeeping shared by the branches that accept button b
Accepts(pins, b) ==
  /\ pc = "menu"
  /\ ~Debounced(now)
  /\ Pressed(pins) = b
  /\ pressesLeft > 0
  /\ pressesLeft' = pressesLeft - 1
  /\ pc' = "power"
  /\ btn' = b /\ accepted' = TRUE
  /\ UNCHANGED <<calib, lastRead, runsLeft, sensors, probe, link, calVars,
                 oldPaths>>

MenuUp(pins) ==
  /\ Accepts(pins, "up")
  /\ currentMenuItem' = UpIndex(currentMenuItem)
  /\ lcdBacklightOn' = wakeLCD(now).lcdBacklightOn
  /\ lastLCDActivity' = wakeLCD(now).lastLCDActivity
  /\ lastButtonPress' = now
  /\ trace' = <<"index">> \o wakeLCD(now).trace
  /\ adcIn' = NoReads /\ ret' = NoReads /\ out' = NoOut
  /\ UNCHANGED <<now, powerSaveMode, bufVars, hist, lastAttempt, stallsLeft,
                 curPaths>>

MenuDown(pins) ==
  /\ Accepts(pins, "down")
  /\ currentMenuItem' = DownIndex(currentMenuItem)
  /\ lcdBacklightOn' = wakeLCD(now).lcdBacklightOn
  /\ lastLCDActivity' = wakeLCD(now).lastLCDActivity
  /\ lastButtonPress' = now
  /\ trace' = <<"index">> \o wakeLCD(now).trace
  /\ adcIn' = NoReads /\ ret' = NoReads /\ out' = NoOut
  /\ UNCHANGED <<now, powerSaveMode, bufVars, hist, lastAttempt, stallsLeft,
                 curPaths>>

MenuBack(pins) ==
  /\ Accepts(pins, "back")
  /\ lcdBacklightOn' = wakeLCD(now).lcdBacklightOn
  /\ lastLCDActivity' = wakeLCD(now).lastLCDActivity
  /\ lastButtonPress' = now
  /\ trace' = wakeLCD(now).trace
  /\ adcIn' = NoReads /\ ret' = NoReads /\ out' = NoOut
  /\ UNCHANGED <<now, currentMenuItem, powerSaveMode, bufVars, hist,
                 lastAttempt, stallsLeft, curPaths>>

\* Select on items 0..4: the value is computed, then displayValue wakes
\* the display.  adc: the code of the pin that is read; t: the probe result
MenuSelectRead(pins) ==
  /\ Accepts(pins, "select")
  /\ currentMenuItem \in 0..4
  /\ \E adc \in PinCodes, t \in probe :
     LET rp == readVoltage(adc, phBuf, phPtr)
         rt == readVoltage(adc, turbBuf, turbPtr)
         rd == readVoltage(adc, tdsBuf, tdsPtr)
     IN CASE currentMenuItem = 0 ->
               /\ trace' = <<"temp">> \o wakeLCD(now).trace
               /\ adcIn' = NoReads /\ ret' = NoReads
               /\ out' = [q \in {"temp"} |-> getTemp(t)]
               /\ UNCHANGED <<bufVars, hist>>
          [] currentMenuItem = 1 ->
               /\ phBuf' = rp.buf /\ phPtr' = rp.ptr
               /\ trace' = <<"ph">> \o wakeLCD(now).trace
               /\ adcIn' = [NoReads EXCEPT !.ph = adc]
               /\ ret' = [NoReads EXCEPT !.ph = rp.ret]
               /\ out' = [q \in {"ph"} |-> phOf(rp.ret, t)]
               /\ hist' = [hist EXCEPT !.ph = Accept(@, adc)]
               /\ UNCHANGED <<turbBuf, turbPtr, tdsBuf, tdsPtr>>
          [] currentMenuItem = 2 ->
               /\ turbBuf' = rt.buf /\ turbPtr' = rt.ptr
               /\ trace' = <<"turb">> \o wakeLCD(now).trace
               /\ adcIn' = [NoReads EXCEPT !.turb = adc]
               /\ ret' = [NoReads EXCEPT !.turb = rt.ret]
               /\ out' = [q \in {"turb"} |-> turbOf(rt.ret)]
               /\ hist' = [hist EXCEPT !.turb = Accept(@, adc)]
               /\ UNCHANGED <<phBuf, phPtr, tdsBuf, tdsPtr>>
          [] currentMenuItem = 3 ->
               /\ tdsBuf' = rd.buf /\ tdsPtr' = rd.ptr
               /\ trace' = <<"tds">> \o wakeLCD(now).trace
               /\ adcIn' = [NoReads EXCEPT !.tds = adc]
               /\ ret' = [NoReads EXCEPT !.tds = rd.ret]
               /\ out' = [q \in {"tds"} |-> tdsOf(rd.ret, t)]
               /\ hist' = [hist EXCEPT !.tds = Accept(@, adc)]
               /\ UNCHANGED <<phBuf, phPtr, turbBuf, turbPtr>>
          [] currentMenuItem = 4 ->
               /\ tdsBuf' = rd.buf /\ tdsPtr' = rd.ptr
               /\ trace' = <<"ec">> \o wakeLCD(now).trace
               /\ adcIn' = [NoReads EXCEPT !.tds = adc]
               /\ ret' = [NoReads EXCEPT !.tds = rd.ret]
               /\ out' = [q \in {"tds", "ec"} |->
                            IF q = "tds" THEN tdsOf(rd.ret, t)
                            ELSE ecOf(tdsOf(rd.ret, t))]
               /\ hist' = [hist EXCEPT !.tds = Accept(@, adc)]
               /\ UNCHANGED <<phBuf, phPtr, turbBuf, turbPtr>>
  /\ lcdBacklightOn' = wakeLCD(now).lcdBacklightOn
  /\ lastLCDActivity' = wakeLCD(now).lastLCDActivity
  /\ lastButtonPress' = now
  /\ UNCHANGED <<now, currentMenuItem, powerSaveMode, lastAttempt, stallsLeft,
                 curPaths>>

\* case 5 that also returns the menu to its first item
MenuSelectPowerSave_ResetsIndex(pins) ==
  /\ Accepts(pins, "select")
  /\ currentMenuItem = 5
  /\ powerSaveMode' = ~powerSaveMode
  /\ currentMenuItem' = 0
  /\ now' = Advance(now, MSG_DELAY_MS)
  /\ lcdBacklightOn' = wakeLCD(now').lcdBacklightOn
  /\ lastLCDActivity' = wakeLCD(now').lastLCDActivity
  /\ lastButtonPress' = now'
  /\ trace' = <<"toggle", "delay">> \o wakeLCD(now').trace
  /\ adcIn' = NoReads /\ ret' = NoReads /\ out' = NoOut
  /\ UNCHANGED <<bufVars, hist, lastAttempt, stallsLeft, curPaths>>

\* Select on item 5: toggle, delay(1000), displayMenu
MenuSelectPowerSave(pins) ==
  /\ Accepts(pins, "select")
  /\ currentMenuItem = 5
  /\ powerSaveMode' = ~powerSaveMode
  /\ now' = Advance(now, MSG_DELAY_MS)
  /\ lcdBacklightOn' = wakeLCD(now').lcdBacklightOn
  /\ lastLCDActivity' = wakeLCD(now').lastLCDActivity
  /\ lastButtonPress' = now'
  /\ trace' = <<"toggle", "delay">> \o wakeLCD(now').trace
  /\ adcIn' = NoReads /\ ret' = NoReads /\ out' = NoOut
  /\ UNCHANGED <<currentMenuItem, bufVars, hist, lastAttempt, stallsLeft,
                 curPaths>>

\* Select on item 6: sendToFirebase, delay(1000), displayMenu
MenuSelectSend(pins) ==
  /\ Accepts(pins, "select")
  /\ currentMenuItem = 6
  /\ \E r \in SendOutcomes(now) :
        /\ phBuf' = r.phBuf /\ phPtr' = r.phPtr
        /\ turbBuf' = r.turbBuf /\ turbPtr' = r.turbPtr
        /\ tdsBuf' = r.tdsBuf /\ tdsPtr' = r.tdsPtr
        /\ adcIn' = r.adcIn /\ ret' = r.ret /\ hist' = r.hist
        /\ out' = r.out /\ curPaths' = curPaths \cup r.paths
        /\ trace' = r.trace \o <<"delay">> \o wakeLCD(r.end).trace
        /\ now' = Advance(r.end, MSG_DELAY_MS)
        /\ stallsLeft' = IF r.end # now THEN stallsLeft - 1 ELSE stallsLeft
  /\ lastAttempt' = [lastAttempt EXCEPT !.at = now, !.kind = "manual",
                                      !.manualAt = now]
  /\ lcdBacklightOn' = wakeLCD(now').lcdBacklightOn
  /\ lastLCDActivity' = wakeLCD(now').lastLCDActivity
  /\ lastButtonPress' = now'
  /\ UNCHANGED <<currentMenuItem, powerSaveMode>>


\* ---------------------------------------------------------- managePower
\* lines 180-201: dim the backlight, then enterDeepSleep (delay(1000), halt)
managePower ==
  /\ pc = "power"
  /\ lcdBacklightOn' = IF DimDue(now) THEN FALSE ELSE lcdBacklightOn
  /\ IF SleepDue(now, lastRead)
     THEN pc' = "asleep" /\ now' = Advance(now, MSG_DELAY_MS)
     ELSE pc' = "upload" /\ now' = now
  /\ trace' = (IF DimDue(now) THEN <<"dim">> ELSE <<>>)
              \o (IF SleepDue(now, lastRead) THEN <<"sleep">> ELSE <<>>)
  /\ adcIn' = NoReads /\ ret' = NoReads /\ out' = NoOut
  /\ btn' = "none" /\ accepted' = FALSE
  /\ UNCHANGED <<currentMenuItem, lastButtonPress, lastLCDActivity, lastRead,
                 powerSaveMode, bufVars, calib, hist,
                 lastAttempt, pressesLeft, runsLeft, stallsLeft, sensors,
                 probe, link, calVars, pathVars>>

\* ------------------------------------------------- rest of loop()
\* lines 402-408 when no upload is made: not due, or due in power-save
UploadCheckNoSend ==
  /\ pc = "upload"
  /\ ~ScheduledSend(now, lastRead)
  /\ lastRead' = IF UploadDue(now, lastRead) THEN now ELSE lastRead
  /\ now' = Advance(now, LOOP_DELAY_MS)
  /\ pc' = "menu"
  /\ trace' = IF UploadDue(now, lastRead) THEN <<"cycle">> ELSE <<>>
  /\ adcIn' = NoReads /\ ret' = NoReads /\ out' = NoOut
  /\ btn' = "none" /\ accepted' = FALSE
  /\ UNCHANGED <<currentMenuItem, lastButtonPress, lastLCDActivity,
                 lcdBacklightOn, powerSaveMode, bufVars, calib,
                 hist, lastAttempt, pressesLeft, runsLeft, stallsLeft, sensors,
                 probe, link, calVars, pathVars>>

\* lines 402-408 when the scheduled upload is made
UploadCheckSend ==
  /\ pc = "upload"
  /\ ScheduledSend(now, lastRead)
  /\ lastRead' = now
  /\ \E r \in SendOutcomes(now) :
        /\ phBuf' = r.phBuf /\ phPtr' = r.phPtr
        /\ turbBuf' = r.turbBuf /\ turbPtr' = r.turbPtr
        /\ tdsBuf' = r.tdsBuf /\ tdsPtr' = r.tdsPtr
        /\ adcIn' = r.adcIn /\ ret' = r.ret /\ hist' = r.hist
        /\ out' = r.out /\ curPaths' = curPaths \cup r.paths
        /\ trace' = <<"cycle">> \o r.trace
        /\ now' = Advance(r.end, LOOP_DELAY_MS)
        /\ stallsLeft' = IF r.end # now THEN stallsLeft - 1 ELSE stallsLeft
  /\ lastAttempt' = [lastAttempt EXCEPT !.at = now, !.kind = "scheduled",
                                      !.schedAt = now]
  /\ pc' = "menu"
  /\ btn' = "none" /\ accepted' = FALSE
  /\ UNCHANGED <<currentMenuItem, lastButtonPress, lastLCDActivity,
                 lcdBacklightOn, powerSaveMode, calib,
                 pressesLeft, runsLeft, sensors, probe, link, calVars,
                 oldPaths>>

\* number of loop() iterations that fit between two scheduled checks
MaxRunTicks == UPLOAD_MS \div LOOP_DELAY_MS

\* number of scheduled checks that fit in the deep-sleep interval, plus one
LongRunCycles == SLEEP_MS \div UPLOAD_MS + 1

\* the first iteration, counted from the one at time t, in which a timer fires
FirstTimer(t, lr) ==
  CHOOSE k \in 0..MaxRunTicks :
    /\ TimerDue(Advance(t, k * LOOP_DELAY_MS), lr)
    /\ \A j \in 0..(k - 1) : ~TimerDue(Advance(t, j * LOOP_DELAY_MS), lr)

\* Consecutive loop() iterations from time t on in which no pin is low: each
\* runs delay(100) and, when the 15 s check fires in power-save mode,
\* refreshes lastRead (lines 402-403).  The result is the clock and lastRead
\* at the start of the first iteration that does more than that, or of the
\* iteration of the (n+1)-th 15 s check.
RECURSIVE IdleUntil(_, _, _)
IdleUntil(t, lr, n) ==
  LET t1 == Advance(t, FirstTimer(t, lr) * LOOP_DELAY_MS)
  IN IF Eventful(t1, lr) \/ n = 0
     THEN [now |-> t1, lastRead |-> lr]
     ELSE IdleUntil(Advance(t1, LOOP_DELAY_MS), t1, n - 1)

\* an idle period: up to the next timer (long = FALSE), or through up to
\* LongRunCycles refreshes of lastRead (long = TRUE)
IdleRun(long) ==
  /\ pc = "menu"
  /\ runsLeft > 0
  /\ LET r == IdleUntil(now, lastRead, IF long THEN LongRunCycles ELSE 0)
     IN /\ r.now # now
        /\ now' = r.now
        /\ lastRead' = r.lastRead
  /\ runsLeft' = runsLeft - 1
  /\ btn' = "none" /\ accepted' = FALSE /\ trace' = <<>>
  /\ adcIn' = NoReads /\ ret' = NoReads /\ out' = NoOut
  /\ UNCHANGED <<pc, currentMenuItem, lastButtonPress, lastLCDActivity,
                 lcdBacklightOn, powerSaveMode, bufVars, calib, hist,
                 lastAttempt, pressesLeft, stallsLeft, sensors, probe, link,
                 calVars, pathVars>>

\* the chip resets and setup() runs again: nothing of the volatile state
\* survives, the calibration is loaded from the store as it is
Restart ==
  /\ \E t \in BootTimes :
       /\ now' = Ms(t)
       /\ lastLCDActivity' = Ms(t)
  /\ pc' = "menu"
  /\ currentMenuItem' = 0
  /\ lastButtonPress' = 0
  /\ lcdBacklightOn' = TRUE
  /\ lastRead' = 0
  /\ powerSaveMode' = FALSE
  /\ phBuf' = ZeroBuf /\ turbBuf' = ZeroBuf /\ tdsBuf' = ZeroBuf
  /\ phPtr' = 0 /\ turbPtr' = 0 /\ tdsPtr' = 0
  /\ calib' = loadCalibration(store, DefaultCalib)
  /\ btn' = "none" /\ accepted' = FALSE /\ trace' = <<"boot">>
  /\ adcIn' = NoReads /\ ret' = NoReads /\ out' = NoOut
  /\ hist' = [c \in Channels |-> <<>>]
  /\ lastAttempt' = NoAttempt
  /\ oldPaths' = oldPaths \cup curPaths /\ curPaths' = {}
  /\ savePos' = 0
  /\ UNCHANGED <<pressesLeft, runsLeft, stallsLeft, sensors, probe, link,
                 store, preSave, saveVals, savesLeft>>

\* wake from deep sleep (ext0 on Select)
WakeFromSleep ==
  /\ pc = "asleep"
  /\ Restart
  /\ UNCHANGED resetsLeft

\* ------------------------------------------------- calibration storage
\* saveCalibration is entered with the globals holding profile p (the
\* function takes no argument: it persists whatever its caller left in
\* them); line 79
SaveBegin(p) ==
  /\ pc = "menu"
  /\ savesLeft > 0
  /\ savesLeft' = savesLeft - 1
  /\ pc' = "saving"
  /\ calib' = p
  /\ savePos' = 1
  /\ preSave' = store
  /\ saveVals' = p
  /\ btn' = "none" /\ accepted' = FALSE /\ trace' = <<"save">>
  /\ adcIn' = NoReads /\ ret' = NoReads /\ out' = NoOut
  /\ UNCHANGED <<now, currentMenuItem, lastButtonPress, lastLCDActivity,
                 lcdBacklightOn, lastRead, powerSaveMode, bufVars, hist,
                 lastAttempt, pathVars, store, resetsLeft, pressesLeft,
                 runsLeft, stallsLeft, sensors, probe, link>>

\* the next putFloat of lines 80-84; the fifth is followed by end()
SavePut ==
  /\ pc = "saving"
  /\ store' = putFloat(store, KeyOrder[savePos], calib[KeyOrder[savePos]])
  /\ IF savePos = Len(KeyOrder)
     THEN savePos' = 0 /\ pc' = "menu"
     ELSE savePos' = savePos + 1 /\ pc' = pc
  /\ btn' = "none" /\ accepted' = FALSE /\ trace' = <<"put">>
  /\ adcIn' = NoReads /\ ret' = NoReads /\ out' = NoOut
  /\ UNCHANGED <<now, currentMenuItem, lastButtonPress, lastLCDActivity,
                 lcdBacklightOn, lastRead, powerSaveMode, bufVars, calib,
                 hist, lastAttempt, pathVars, preSave, saveVals, savesLeft,
                 resetsLeft, pressesLeft, runsLeft, stallsLeft, sensors,
                 probe, link>>

\* reset or power loss, between two loop() iterations or inside
\* saveCalibration
PowerCycle ==
  /\ pc \in {"menu", "saving"}
  /\ resetsLeft > 0
  /\ resetsLeft' = resetsLeft - 1
  /\ Restart

\* ------------------------------------------------------- specifications
Next ==
  \/ \E pins \in PinInputs : MenuDebounce(pins)
  \/ MenuIdle
  \/ \E pins \in PinInputs : MenuUp(pins)
  \/ \E pins \in PinInputs : MenuDown(pins)
  \/ \E pins \in PinInputs : MenuBack(pins)
  \/ \E pins \in PinInputs : MenuSelectRead(pins)
  \/ \E pins \in PinInputs : MenuSelectPowerSave(pins)
  \/ \E pins \in PinInputs : MenuSelectSend(pins)
  \/ managePower
  \/ UploadCheckNoSend
  \/ UploadCheckSend
  \/ \E long \in BOOLEAN : IdleRun(long)
  \/ WakeFromSleep

Spec == Init /\ [][Next]_vars

\* the steps the sensor scenario can take: it has no idle period, so the
\* clock stays below the first scheduled check and the sleep threshold
NextSample ==
  \/ \E pins \in PinInputs : MenuDebounce(pins)
  \/ \E pins \in PinInputs : MenuUp(pins)
  \/ \E pins \in PinInputs : MenuDown(pins)
  \/ \E pins \in PinInputs : MenuBack(pins)
  \/ \E pins \in PinInputs : MenuSelectRead(pins)
  \/ \E pins \in PinInputs : MenuSelectPowerSave(pins)
  \/ \E pins \in PinInputs : MenuSelectSend(pins)
  \/ managePower
  \/ UploadCheckNoSend

SpecSample == InitSample /\ [][NextSample]_vars


\* the upload scenario: every code on every pin, every probe result, the
\* network up or down, one idle period up to the first scheduled upload
InitUpload ==
  /\ \E t \in BootTimes : Boot(t, EmptyStore)
  /\ pressesLeft = UploadPresses
  /\ runsLeft = 1
  /\ stallsLeft = 0
  /\ savesLeft = 0
  /\ resetsLeft = 0
  /\ sensors = [ph : UploadAdc, turb : UploadAdc, tds : UploadAdc]
  /\ probe = UploadTemps
  /\ link = BOOLEAN

NextUpload ==
  \/ \E pins \in PinInputs : MenuDebounce(pins)
  \/ MenuIdle
  \/ \E pins \in PinInputs : MenuUp(pins)
  \/ \E pins \in PinInputs : MenuSelectSend(pins)
  \/ managePower
  \/ UploadCheckNoSend
  \/ UploadCheckSend
  \/ IdleRun(FALSE)

SpecUpload == InitUpload /\ [][NextUpload]_vars

\* calibration profiles other than the defaults: slopes that drive the raw
\* pH and turbidity above and below their ranges
SteepCalib == [ph_slope |-> 20000, ph_intercept |-> 7000,
               turb_slope |-> 500000, turb_intercept |-> 100000,
               tds_k |-> 2000]

FallingCalib == [ph_slope |-> -20000, ph_intercept |-> 7000,
                 turb_slope |-> -500000, turb_intercept |-> 100000,
                 tds_k |-> 250]

CalibProfiles == {DefaultCalib, SteepCalib, FallingCalib}

\* contents of the namespace at power-up: empty, a full profile, or only
\* some of the keys
CalibStores ==
  {EmptyStore, FullStore(SteepCalib),
   [FullStore(FallingCalib) EXCEPT !["ph_intercept"] = EmptyStore["ph_intercept"],
                                   !["tds_k"] = EmptyStore["tds_k"]]}

\* the calibration scenario: any of the stores at power-up, one code on the
\* three pins, button presses, a save and a reset
InitCalib ==
  /\ \E t \in BootTimes, st \in CalibStores : Boot(t, st)
  /\ pressesLeft = CalibPresses
  /\ runsLeft = 0
  /\ stallsLeft = 0
  /\ savesLeft = MaxSaves
  /\ resetsLeft = MaxResets
  /\ sensors = {[ph |-> a, turb |-> a, tds |-> a] : a \in AdcValues}
  /\ probe = SampleTemps
  /\ link = BOOLEAN

NextCalib ==
  \/ \E pins \in PinInputs : MenuDebounce(pins)
  \/ \E pins \in PinInputs : MenuUp(pins)
  \/ \E pins \in PinInputs : MenuDown(pins)
  \/ \E pins \in PinInputs : MenuSelectRead(pins)
  \/ \E pins \in PinInputs : MenuSelectSend(pins)
  \/ managePower
  \/ UploadCheckNoSend
  \/ \E p \in CalibProfiles : SaveBegin(p)
  \/ SavePut
  \/ PowerCycle

SpecCalib == InitCalib /\ [][NextCalib]_vars

\* ms left until the counter wraps, and the ages (ms) of the last accepted
\* press and of the last 15 s check, at the start of the wrap-around scenario
WrapLeads == {100, 200}
WrapPressAges == {100, 29900}
WrapReadAges == {100, 14900}

\* the wrap-around scenario: the node has been up for just under 2^32 ms.
\* The last accepted press (which also was the last display activity) and
\* the last 15 s check lie shortly before; the backlight is still on; no
\* sample was accepted so far (sensors at a rail or network down).
InitWrap ==
  /\ \E lead \in WrapLeads, pa \in WrapPressAges, ra \in WrapReadAges :
       /\ now = CLOCK_WRAP - Ms(lead)
       /\ lastButtonPress = CLOCK_WRAP - Ms(lead) - Ms(pa)
       /\ lastLCDActivity = CLOCK_WRAP - Ms(lead) - Ms(pa)
       /\ lastRead = CLOCK_WRAP - Ms(lead) - Ms(ra)
       /\ lastAttempt = [at |-> CLOCK_WRAP - Ms(lead) - Ms(ra),
                         kind |-> "scheduled", manualAt |-> NoRead,
                         schedAt |-> CLOCK_WRAP - Ms(lead) - Ms(ra)]
  /\ pc = "menu"
  /\ currentMenuItem \in {0, 5, 6}
  /\ lcdBacklightOn = TRUE
  /\ powerSaveMode \in BOOLEAN
  /\ phBuf = ZeroBuf /\ turbBuf = ZeroBuf /\ tdsBuf = ZeroBuf
  /\ phPtr = 0 /\ turbPtr = 0 /\ tdsPtr = 0
  /\ store = EmptyStore
  /\ calib = loadCalibration(EmptyStore, DefaultCalib)
  /\ btn = "none" /\ accepted = FALSE /\ trace = <<>>
  /\ adcIn = NoReads /\ ret = NoReads /\ out = NoOut
  /\ hist = [c \in Channels |-> <<>>]
  /\ oldPaths = {} /\ curPaths = {}
  /\ savePos = 0 /\ preSave = EmptyStore /\ saveVals = DefaultCalib
  /\ pressesLeft = WrapPresses
  /\ runsLeft = WrapIdleRuns
  /\ stallsLeft = 0
  /\ savesLeft = 0
  /\ resetsLeft = 0
  /\ sensors = {[ph |-> a, turb |-> a, tds |-> a] : a \in TimingAdc}
  /\ probe = TimingTemps
  /\ link = BOOLEAN

NextWrap ==
  \/ \E pins \in PinInputs : MenuDebounce(pins)
  \/ MenuIdle
  \/ \E pins \in PinInputs : MenuUp(pins)
  \/ \E pins \in PinInputs : MenuDown(pins)
  \/ \E pins \in PinInputs : MenuBack(pins)
  \/ \E pins \in PinInputs : MenuSelectRead(pins)
  \/ \E pins \in PinInputs : MenuSelectPowerSave(pins)
  \/ \E pins \in PinInputs : MenuSelectSend(pins)
  \/ managePower
  \/ UploadCheckNoSend
  \/ UploadCheckSend
  \/ \E long \in BOOLEAN : IdleRun(long)

SpecWrap == InitWrap /\ [][NextWrap]_vars

\* ================================================================ claims
Last(sq) == sq[Len(sq)]

Has(sq, e) == \E i \in 1..Len(sq) : sq[i] = e

Sum3(h) == (IF Len(h) >= 1 THEN h[1] ELSE 0) + (IF Len(h) >= 2 THEN h[2] ELSE 0)
           + (IF Len(h) >= 3 THEN h[3] ELSE 0)

\* the step is the scheduled-upload check and it calls sendToFirebase
SchedSendStep == pc = "upload" /\ Len(trace') >= 2 /\ trace'[2] = "send"

\* the step is a handleMenu call that accepts a press with the backlight off
DarkPressStep == pc = "menu" /\ ~lcdBacklightOn /\ accepted'

\* C1: with power-save enabled and no button pressed, once more than 300 s
\* of inactivity have passed a loop() iteration enters deep sleep: no
\* iteration ends awake with power-save on and the last accepted press more
\* than 300 s (and one iteration) back.
C1_SleepsAfterInactivity ==
  ~(/\ pc = "menu"
    /\ powerSaveMode
    /\ Elapsed(now, lastButtonPress) > Ms(SLEEP_MS) + Ms(LOOP_DELAY_MS))

\* C2 as stated: a scheduled upload is attempted only when at least 15 s have
\* elapsed since the start of the last send attempt of either kind.
C2_AfterAnyAttempt ==
  [][SchedSendStep =>
       (lastAttempt.kind = "none"
        \/ Elapsed(now, lastAttempt.at) >= Ms(UPLOAD_MS))]_vars

\* C2 amended: a scheduled upload is attempted only when at least 15 s have
\* elapsed since the last scheduled attempt (since power-up when there was
\* none); a manual send does not restart the interval.
C2_AfterScheduledAttempt ==
  [][SchedSendStep =>
       Elapsed(now, IF lastAttempt.schedAt = NoRead THEN 0
                    ELSE lastAttempt.schedAt) >= Ms(UPLOAD_MS)]_vars

\* a scheduled attempt made less than 15 s after a manual one
C2_Witness ==
  /\ pc = "menu"
  /\ lastAttempt.kind = "scheduled"
  /\ lastAttempt.manualAt # NoRead
  /\ Elapsed(lastAttempt.schedAt, lastAttempt.manualAt) < Ms(UPLOAD_MS)

C4_SleepOnlyInPowerSave ==
  [][(pc # "asleep" /\ pc' = "asleep") =>
       (powerSaveMode /\ Elapsed(now, lastRead) > Ms(SLEEP_MS))]_vars

\* the node is in deep sleep
C4_Witness == pc = "asleep"

\* C5: at the end of every loop() iteration, a backlight that is off means
\* power-save is enabled and more than 30 s passed since the last display
\* activity.
C5_DarkOnlyWhenIdle ==
  (pc = "menu" /\ ~lcdBacklightOn) =>
    (powerSaveMode /\ Elapsed(now, lastLCDActivity) > Ms(DIM_MS))

\* an iteration ends with the backlight off
C5_Witness == pc = "menu" /\ ~lcdBacklightOn

\* C6: the scheduled-upload check never calls sendToFirebase while
\* power-save is enabled.
C6_NoScheduledSendInPowerSave ==
  (pc = "menu" /\ Len(trace) >= 2 /\ trace[1] = "cycle" /\ trace[2] = "send")
    => ~powerSaveMode

\* the 15 s check fired in power-save mode and no upload was made
C6_Witness == pc = "menu" /\ powerSaveMode /\ trace = <<"cycle">>

\* C7: a handleMenu call with a button held less than 200 ms after the last
\* accepted press changes nothing and reads no sensor and sends nothing.
C7_DebounceNoChange ==
  [][(/\ pc = "menu" /\ pc' = "power"
      /\ btn' # "none"
      /\ Elapsed(now, lastButtonPress) < Ms(DEBOUNCE_MS))
     => (/\ UNCHANGED progVars
         /\ ~accepted'
         /\ trace' = <<>>
         /\ adcIn' = NoReads
         /\ lastAttempt' = lastAttempt)]_vars

\* a held button was ignored inside the debounce window
C7_Witness ==
  /\ pc = "power" /\ btn # "none" /\ ~accepted
  /\ Elapsed(now, lastButtonPress) < Ms(DEBOUNCE_MS)

\* C8: the menu index stays in 0..6; an accepted Up moves 0 to 6 and any
\* other index down by one; an accepted Down moves 6 to 0 and any other
\* index up by one.
C8_MenuCircular ==
  [][/\ currentMenuItem' \in 0..6
     /\ (accepted' /\ btn' = "up") =>
          currentMenuItem' = (IF currentMenuItem = 0 THEN 6
                              ELSE currentMenuItem - 1)
     /\ (accepted' /\ btn' = "down") =>
          currentMenuItem' = (IF currentMenuItem = 6 THEN 0
                              ELSE currentMenuItem + 1)]_vars

\* Down has just wrapped from the last item to the first
C8_Witness == pc = "power" /\ accepted /\ btn = "down" /\ currentMenuItem = 0

\* C9: a read of raw code 0 or 4095 returns the error value and leaves the
\* channel's buffer and cursor as they were.
C9_RailLeavesBuffer ==
  [][/\ adcIn'.ph \in {0, 4095} =>
          (ret'.ph = INVALID /\ phBuf' = phBuf /\ phPtr' = phPtr)
     /\ adcIn'.turb \in {0, 4095} =>
          (ret'.turb = INVALID /\ turbBuf' = turbBuf /\ turbPtr' = turbPtr)
     /\ adcIn'.tds \in {0, 4095} =>
          (ret'.tds = INVALID /\ tdsBuf' = tdsBuf /\ tdsPtr' = tdsPtr)]_vars

\* the upper rail was read on a channel that already holds two samples
C9_Witness == adcIn.tds = 4095 /\ Len(hist.tds) = 2

\* C10: the mean returned for an accepted sample is the sum of the last
\* three accepted voltages of the channel (missing ones count 0) divided by
\* 3, and the cursors stay in 0..2.
C10_MeanOfLastThree ==
  /\ \A c \in Channels :
       (adcIn[c] # NoRead /\ ret[c] # INVALID) => ret[c] = Sum3(hist[c]) \div 3
  /\ phPtr \in 0..2 /\ turbPtr \in 0..2 /\ tdsPtr \in 0..2

\* a fourth accepted pH sample has replaced the oldest one
C10_Witness ==
  /\ Len(hist.ph) = 3 /\ phPtr = 1
  /\ adcIn.ph # NoRead /\ ret.ph # INVALID
  /\ hist.ph[1] # hist.ph[3]

\* C17: two uploads made at different wall-clock seconds never use the same
\* path, an upload made before a restart or deep-sleep wake and one made
\* after it included: no path handed to the transport since the last restart
\* was also handed to it before that restart.
C17_PathsNeverReused == oldPaths \cap curPaths = {}

\* the step was a sendToFirebase call that got past the readiness test and
\* computed the five quantities
Attempted == Has(trace, "send") /\ Has(trace, "temp")

OffRail(adc) == adc # NoRead /\ adc # 0 /\ adc # ADC_MAX

\* C11: an upload attempt, scheduled or manual, in which the pH, turbidity
\* or TDS reading is invalid (negative) builds no payload and makes no
\* transport call.
C11_InvalidReadingNoTransport ==
  (Attempted /\ (out.ph < 0 \/ out.turb < 0 \/ out.tds < 0))
    => (~Has(trace, "payload") /\ ~Has(trace, "transport"))

\* an attempt in which only the TDS reading is invalid
C11_Witness ==
  /\ Attempted
  /\ out.temp >= 0 /\ out.ph >= 0 /\ out.turb >= 0 /\ out.tds < 0
  /\ ~Has(trace, "transport")

\* C12: no probe result blocks pH or TDS: a pH or TDS reading is invalid
\* only when the channel's raw code is at a rail, and an upload attempt with
\* the transport ready and the three codes off the rails hands a payload to
\* the transport, whatever the probe reports.
C12_TemperatureNeverBlocks ==
  /\ \A c \in {"ph", "tds"} :
       (c \in DOMAIN out /\ out[c] < 0) => ~OffRail(adcIn[c])
  /\ (Attempted /\ \A c \in Channels : OffRail(adcIn[c]))
       => Has(trace, "transport")

\* C13: every valid pH reading lies in [0, 14] and every valid turbidity
\* reading in [0, 150], whatever the code read off the rails, the buffer
\* contents, the calibration and the probe result.
C13_ClampedReadings ==
  /\ ("ph" \in DOMAIN out /\ OffRail(adcIn.ph)) => out.ph \in 0..14000
  /\ ("turb" \in DOMAIN out /\ OffRail(adcIn.turb)) => out.turb \in 0..150000

\* a pH reading clamped at 14 under a steep calibration
C13_Witness ==
  /\ "ph" \in DOMAIN out /\ OffRail(adcIn.ph)
  /\ out.ph = 14000 /\ calib.ph_slope > 0

\* C14: in the menu EC query and in the upload payload, EC is 2 times the
\* TDS computed from the same sample when that TDS is valid, and EC is
\* invalid exactly when that TDS is invalid.
C14_EcTwiceTds ==
  "ec" \in DOMAIN out =>
    /\ out.tds >= 0 => out.ec = 2 * out.tds
    /\ out.ec < 0 <=> out.tds < 0

\* the menu EC query returned a valid, non-zero value
C14_Witness == Has(trace, "ec") /\ "ec" \in DOMAIN out /\ out.ec > 0

\* C15: whenever no save is in progress, after an interruption included, the
\* stored coefficients are all the values from before the last save or all
\* the values that save was writing.
C15_SaveAllOrNothing ==
  pc # "saving" => (store = preSave \/ store = FullStore(saveVals))

\* C16: the profile loaded at startup is complete; each coefficient is its
\* stored value when the key is present and its hard-coded default when it
\* is absent; an empty store gives the defaults, and a store left by a
\* completed save gives the saved profile.
C16_LoadComplete ==
  Has(trace, "boot") =>
    LET hard == [ph_slope |-> -1500, ph_intercept |-> 7000,
                 turb_slope |-> -50000, turb_intercept |-> 100000,
                 tds_k |-> 500]
    IN /\ DOMAIN calib = Keys
       /\ \A k \in Keys :
            calib[k] = IF store[k].present THEN store[k].val ELSE hard[k]
       /\ (\A k \in Keys : ~store[k].present) => calib = hard
       /\ store = FullStore(saveVals) => calib = saveVals

\* a restart after a completed save that changed the store
C16_Witness ==
  /\ Has(trace, "boot")
  /\ savesLeft < MaxSaves
  /\ store = FullStore(saveVals) /\ store # preSave
  /\ saveVals # DefaultCalib

\* the step is a handleMenu call that accepts Select
SelectStep == pc = "menu" /\ accepted' /\ btn' = "select"

\* the step is a handleMenu call that accepts a press
PressStep == pc = "menu" /\ accepted'

IsQuery(x) == x \in {"temp", "ph", "turb", "tds", "ec"}

\* the quantity item i of the menu shows
Quantity(i) == <<"temp", "ph", "turb", "tds", "ec">>[i + 1]

Count(sq, e) == Cardinality({i \in 1..Len(sq) : sq[i] = e})

\* C18: an accepted Select leaves the index unchanged; on items 0-4 it makes
\* exactly one query, of the selected quantity, and changes neither
\* power-save nor the upload timestamp; on item 5 it flips power-save and
\* touches no sensor or upload state; on item 6 it calls the send routine
\* exactly once, whatever power-save is and whenever the last send was.
C18_SelectDispatch ==
  [][SelectStep =>
       /\ currentMenuItem' = currentMenuItem
       /\ currentMenuItem \in 0..4 =>
            /\ SelectSeq(trace', IsQuery) = <<Quantity(currentMenuItem)>>
            /\ ~Has(trace', "send")
            /\ powerSaveMode' = powerSaveMode
            /\ lastRead' = lastRead
       /\ currentMenuItem = 5 =>
            /\ powerSaveMode' = ~powerSaveMode
            /\ SelectSeq(trace', IsQuery) = <<>>
            /\ ~Has(trace', "send")
            /\ UNCHANGED <<bufVars, lastRead, lastAttempt, curPaths>>
            /\ adcIn' = NoReads
       /\ currentMenuItem = 6 =>
            /\ Count(trace', "send") = 1
            /\ lastAttempt'.kind = "manual" /\ lastAttempt'.at = now
            /\ powerSaveMode' = powerSaveMode
            /\ lastRead' = lastRead]_vars

\* Select on 'Send Data' has just called the send routine with power-save
\* enabled
C18_Witness ==
  /\ pc = "power" /\ accepted /\ btn = "select"
  /\ currentMenuItem = 6 /\ powerSaveMode /\ Has(trace, "send")

\* C19: a pH query changes only the pH buffer and cursor, a turbidity query
\* only the turbidity ones, a TDS or EC query only the TDS ones; a
\* temperature query, Up, Down, Back, the power-save toggle and a send
\* attempt skipped because the transport is not ready change none.
C19_BuffersIndependent ==
  [][PressStep =>
       /\ (btn' = "select" /\ currentMenuItem = 1) =>
            UNCHANGED <<turbBuf, turbPtr, tdsBuf, tdsPtr>>
       /\ (btn' = "select" /\ currentMenuItem = 2) =>
            UNCHANGED <<phBuf, phPtr, tdsBuf, tdsPtr>>
       /\ (btn' = "select" /\ currentMenuItem \in {3, 4}) =>
            UNCHANGED <<phBuf, phPtr, turbBuf, turbPtr>>
       /\ (btn' \in {"up", "down", "back"}
           \/ (btn' = "select" /\ currentMenuItem \in {0, 5})) =>
            UNCHANGED bufVars
       /\ (Has(trace', "send") /\ ~Has(trace', "temp")) =>
            UNCHANGED bufVars]_vars

\* a send attempt was skipped as not ready while the pH buffer holds samples
C19_Witness ==
  /\ pc = "power" /\ accepted /\ trace[1] = "send" /\ ~Has(trace, "temp")
  /\ Len(hist.ph) > 0 /\ Len(hist.turb) = 0

\* the time from since to t on a clock that does not wrap, for instants less
\* than 2^32 ms apart
TrueElapsed(t, since) == IF t >= since THEN t - since ELSE t + CLOCK_WRAP - since

\* C20: the timer comparisons decide by the true elapsed time also when the
\* counter has wrapped between the stored timestamp and now: a held button
\* is accepted exactly when 200 ms have passed since the last accepted
\* press; the backlight is dimmed exactly when power-save is on, the
\* backlight is on and more than 30 s have passed; the 15 s check fires
\* exactly when 15 s have passed, and uploads exactly when it fires with
\* power-save off; deep sleep is entered exactly when power-save is on and
\* more than 300 s have passed.
C20_TimersAcrossWrap ==
  [][/\ (pc = "menu" /\ pc' = "power" /\ btn' # "none") =>
          (accepted' <=> TrueElapsed(now, lastButtonPress) >= Ms(200))
     /\ pc = "power" =>
          /\ Has(trace', "dim") <=>
               (powerSaveMode /\ lcdBacklightOn
                /\ TrueElapsed(now, lastLCDActivity) > Ms(30000))
          /\ Has(trace', "sleep") <=>
               (powerSaveMode /\ TrueElapsed(now, lastRead) > Ms(300000))
     /\ pc = "upload" =>
          /\ Has(trace', "cycle") <=> TrueElapsed(now, lastRead) >= Ms(15000)
          /\ Has(trace', "send") <=>
               (TrueElapsed(now, lastRead) >= Ms(15000) /\ ~powerSaveMode)]_vars

\* the 15 s check has fired after the wrap, measured from a timestamp taken
\* before it
C20_Witness ==
  /\ pc = "menu" /\ Has(trace, "cycle")
  /\ lastRead < Ms(UPLOAD_MS)

====
